---- MODULE Spec2Model ----
(***************************************************************************)
(* Model of frontend/src/components/layout/AppLayout.tsx: the deep-link    *)
(* resolver (three useEffect hooks), the link extractor and the handlers   *)
(* of create-event, join-event, withdraw and the two check-ins.            *)
(*                                                                         *)
(* JavaScript strings are sequences of one-character strings.  Public keys *)
(* are model values ("T1", "E1", ...) with a base58 text form; a `string | *)
(* null` value is a record (NullStr / Some(s)).                            *)
(***************************************************************************)
EXTENDS Integers, Sequences, FiniteSets, TLC

\* ------------------------------------------------------------------ bounds

\* In-flight deep-link ticket fetches modelled at once.
MaxDlFetches == 2
\* Invocations of handleJoinEvent in one run.
MaxJoins == 2
\* Invocations of the two check-in handlers in one run.
MaxCheckIns == 2
\* Invocations of handleCreateEvent and handleWithdraw in one run.
MaxManage == 2
\* Invocations of all handlers together in a run of SpecHandlers.
MaxInvocations == 2
\* Pieces a scanned text has after its beginning.
MaxParts == 3
\* Pieces of a ticket identifier.
MaxIdLen == 3

\* ------------------------------------------------------------------ strings

NULL == "null"

NullStr == [null |-> TRUE]

Some(s) == [null |-> FALSE, s |-> s]

\* Characters String.prototype.trim and the regex class \s remove.
WS == {" ", "\t", "\n"}

StartsWith(s, p) == Len(s) >= Len(p) /\ SubSeq(s, 1, Len(p)) = p

\* String.prototype.indexOf, 1-based; 0 when p does not occur (JS: -1).
IndexOf(s, p) ==
  LET hits == {i \in 1..(Len(s) - Len(p) + 1) : SubSeq(s, i, i + Len(p) - 1) = p}
  IN  IF hits = {} THEN 0 ELSE CHOOSE i \in hits : \A j \in hits : i <= j

\* String.prototype.trim.
Trim(s) ==
  LET solid == {i \in 1..Len(s) : s[i] \notin WS}
  IN  IF solid = {} THEN <<>>
      ELSE SubSeq(s, CHOOSE i \in solid : \A j \in solid : i <= j,
                     CHOOSE i \in solid : \A j \in solid : i >= j)

\* The part of s before the first character of `stops` (all of s if none).
TakeUntil(s, stops) ==
  LET hits == {i \in 1..Len(s) : s[i] \in stops}
  IN  IF hits = {} THEN s
      ELSE SubSeq(s, 1, (CHOOSE i \in hits : \A j \in hits : i <= j) - 1)

\* The part of s from the first character of `stops` on (empty if none).
DropUntil(s, stops) == SubSeq(s, Len(TakeUntil(s, stops)) + 1, Len(s))

RECURSIVE SplitOn(_, _)
\* String.prototype.split on a single character.
SplitOn(s, c) ==
  IF c \notin {s[i] : i \in 1..Len(s)} THEN <<s>>
  ELSE <<TakeUntil(s, {c})>> \o SplitOn(Tail(DropUntil(s, {c})), c)

HttpScheme == <<"h", "t", "t", "p", ":", "/", "/">>

HttpsScheme == <<"h", "t", "t", "p", "s", ":", "/", "/">>

TicketEq == <<"t", "i", "c", "k", "e", "t", "=">>

TicketName == <<"t", "i", "c", "k", "e", "t">>

\* new URL(s) for an http(s) input: slashes after the scheme are skipped,
\* the host ends at the first / \ ? or #; an empty host or a host with
\* white space makes the constructor throw.
\* The result is the query string (between the first ? and the fragment).
UrlParse(s) ==
  LET after == IF StartsWith(s, HttpsScheme)
               THEN SubSeq(s, Len(HttpsScheme) + 1, Len(s))
               ELSE SubSeq(s, Len(HttpScheme) + 1, Len(s))
      other == {i \in 1..Len(after) : after[i] \notin {"/", "\\"}}
      rest  == IF other = {} THEN <<>>
               ELSE SubSeq(after, CHOOSE i \in other : \A j \in other : i <= j,
                           Len(after))
      host  == TakeUntil(rest, {"/", "\\", "?", "#"})
      tail  == TakeUntil(DropUntil(rest, {"/", "\\", "?", "#"}), {"#"})
      query == DropUntil(tail, {"?"})
  IN  IF host = <<>> \/ \E i \in 1..Len(host) : host[i] \in WS
      THEN [ok |-> FALSE]
      ELSE [ok |-> TRUE, query |-> IF query = <<>> THEN <<>> ELSE Tail(query)]

\* application/x-www-form-urlencoded decoding of one name or value: + is a space.
FormDecode(s) == [i \in 1..Len(s) |-> IF s[i] = "+" THEN " " ELSE s[i]]

\* url.searchParams.get("ticket"): the value of the first ticket pair, or null.
SearchParamsGetTicket(query) ==
  LET parts == SplitOn(query, "&")
      hits  == {i \in 1..Len(parts) :
                  /\ parts[i] # <<>>
                  /\ FormDecode(TakeUntil(parts[i], {"="})) = TicketName}
  IN  IF hits = {} THEN NullStr
      ELSE LET p == parts[CHOOSE i \in hits : \A j \in hits : i <= j]
               v == DropUntil(p, {"="})
           IN  Some(FormDecode(IF v = <<>> THEN <<>> ELSE Tail(v)))

\* JavaScript truthiness of a `string | null`.
Truthy(o) == ~o.null /\ o.s # <<>>

\* A slip that tries the 'ticket=' rule before the URL rule.
extractTicketAddressFromInputSubstringFirst(raw) ==
  LET trimmed == Trim(raw)
  IN  IF trimmed = <<>> THEN NullStr
      ELSE IF IndexOf(trimmed, TicketEq) # 0
      THEN LET idx   == IndexOf(trimmed, TicketEq)
               after == SubSeq(trimmed, idx + Len(TicketEq), Len(trimmed))
               ticketCandidate == TakeUntil(after, {"&", "#", "?"} \cup WS)
           IN  IF Trim(ticketCandidate) = <<>> THEN NullStr
               ELSE Some(Trim(ticketCandidate))
      ELSE IF StartsWith(trimmed, HttpScheme) \/ StartsWith(trimmed, HttpsScheme)
      THEN LET url == UrlParse(trimmed)
           IN  IF ~url.ok THEN NullStr
               ELSE LET ticketParam == SearchParamsGetTicket(url.query)
                    IN  IF Truthy(ticketParam) THEN Some(Trim(ticketParam.s))
                        ELSE NullStr
      ELSE Some(trimmed)

\* A slip that splits the text after 'ticket=' on & # ? only, not on white space.
extractTicketAddressFromInputNoSpaceSplit(raw) ==
  LET trimmed == Trim(raw)
  IN  IF trimmed = <<>> THEN NullStr
      ELSE IF StartsWith(trimmed, HttpScheme) \/ StartsWith(trimmed, HttpsScheme)
      THEN LET url == UrlParse(trimmed)
           IN  IF ~url.ok THEN NullStr
               ELSE LET ticketParam == SearchParamsGetTicket(url.query)
                    IN  IF Truthy(ticketParam) THEN Some(Trim(ticketParam.s))
                        ELSE NullStr
      ELSE IF IndexOf(trimmed, TicketEq) # 0
      THEN LET idx   == IndexOf(trimmed, TicketEq)
               after == SubSeq(trimmed, idx + Len(TicketEq), Len(trimmed))
               ticketCandidate == TakeUntil(after, {"&", "#", "?"})
           IN  IF Trim(ticketCandidate) = <<>> THEN NullStr
               ELSE Some(Trim(ticketCandidate))
      ELSE Some(trimmed)

\* The link extractor: the first rule that applies decides.
extractTicketAddressFromInput(raw) ==
  LET trimmed == Trim(raw)
  IN  IF trimmed = <<>> THEN NullStr
      ELSE IF StartsWith(trimmed, HttpScheme) \/ StartsWith(trimmed, HttpsScheme)
      THEN LET url == UrlParse(trimmed)
           IN  IF ~url.ok THEN NullStr
               ELSE LET ticketParam == SearchParamsGetTicket(url.query)
                    IN  IF Truthy(ticketParam) THEN Some(Trim(ticketParam.s))
                        ELSE NullStr
      ELSE IF IndexOf(trimmed, TicketEq) # 0
      THEN LET idx   == IndexOf(trimmed, TicketEq)
               after == SubSeq(trimmed, idx + Len(TicketEq), Len(trimmed))
               ticketCandidate == TakeUntil(after, {"&", "#", "?"} \cup WS)
           IN  IF Trim(ticketCandidate) = <<>> THEN NullStr
               ELSE Some(Trim(ticketCandidate))
      ELSE Some(trimmed)

\* ------------------------------------------------------------------ keys

\* Accounts of the modelled chain: two tickets, two events, two wallets.
TicketKeys == {"T1", "T2"}

EventKeys == {"E1", "E2"}

WalletKeys == {"W1", "W2"}

Keys == TicketKeys \cup EventKeys \cup WalletKeys

\* PublicKey.toBase58 on the modelled accounts.
toBase58(k) ==
  CASE k = "T1" -> <<"T", "a">>
    [] k = "T2" -> <<"T", "b">>
    [] k = "E1" -> <<"E", "a">>
    [] k = "E2" -> <<"E", "b">>
    [] k = "W1" -> <<"W", "a">>
    [] k = "W2" -> <<"W", "b">>

\* new PublicKey(s): the key whose base58 text is s; NULL stands for the throw
\* on text that is no well-formed address.
PublicKeyOf(s) ==
  IF \E k \in Keys : toBase58(k) = s
  THEN CHOOSE k \in Keys : toBase58(k) = s
  ELSE NULL

\* ticket.event of the on-chain Ticket accounts (fixed when the ticket is minted).
TicketEvent(t) == IF t = "T1" THEN "E1" ELSE "E2"

\* event.organizer of the on-chain Event accounts.
Organizer(e) == IF e = "E1" THEN "W1" ELSE "W2"

\* ------------------------------------------------------------------ status

StInvalidLink == [kind |-> "fail", msg |-> "Invalid or unknown ticket in check-in link"]

StSelectEventToJoin == [kind |-> "fail", msg |-> "Select an event to join"]

StPreparingJoin == [kind |-> "progress", msg |-> "Preparing mint + joining event"]

StNotInLocalList == [kind |-> "fail", msg |-> "Selected event not found in local list"]

StCallingJoin == [kind |-> "progress", msg |-> "Calling join_event"]

StJoined == [kind |-> "ok", msg |-> "Joined event & minted ticket"]

StNoTicketAddress ==
  [kind |-> "fail", msg |-> "Could not find a ticket address in the scanned data"]

StOrganizerOnly ==
  [kind |-> "fail", msg |-> "Only the event organizer can check in attendees"]

StInvalidTicketKey == [kind |-> "fail", msg |-> "Invalid ticket public key"]

StNotTicketAccount ==
  [kind |-> "fail", msg |-> "That account is not a Ticket account for this program"]

StDifferentEvent == [kind |-> "fail", msg |-> "This ticket belongs to a different event"]

StAlreadyCheckedIn == [kind |-> "info", msg |-> "This ticket is already checked in"]

StCheckingIn == [kind |-> "progress", msg |-> "Checking in attendee"]

StSendingCheckIn == [kind |-> "progress", msg |-> "Sending check_in"]

StCheckInTx == [kind |-> "ok", msg |-> "check_in tx"]

StCheckedIn == [kind |-> "ok", msg |-> "Attendee checked in"]

\* Errors a rejected promise carries: a wallet rejection (message only), a
\* program error (error.message and logs), and a bare object.
Errors ==
  { [errorMessage |-> NULL, message |-> "User rejected the request", logs |-> FALSE],
    [errorMessage |-> "custom program error", message |-> "AnchorError", logs |-> TRUE],
    [errorMessage |-> NULL, message |-> NULL, logs |-> FALSE] }

\* The errors that carry program logs.
ProgramErrors == {e \in Errors : e.logs}

\* handleError: the status it sets.
handleError(e) ==
  LET baseMsg == IF e.errorMessage # NULL THEN e.errorMessage
                 ELSE IF e.message # NULL THEN e.message
                 ELSE "Transaction failed"
  IN  [kind |-> "fail", msg |-> baseMsg, hint |-> e.logs]

\* txStatus before any handler wrote it (useState(null)).
StIdle == [kind |-> "idle"]

\* ------------------------------------------------------------------ state

VARIABLES
  href,                \* window.location.href of the page load
  mounted,             \* the mount effect has run
  program,             \* useProgram(): NULL or a program handle
  wallet,              \* wallet.publicKey: NULL or a wallet key
  events,              \* useEvents().events, as the set of their addresses
  txStatus,            \* the status banner
  mainTab,
  selectedEvent,       \* address of the selected EventAccount, or NULL
  deepLinkTicket,      \* string | null
  deepLinkEventPubkey, \* PublicKey | null
  fetchEffectPending,  \* the ticket-fetch effect is scheduled (its deps changed)
  selEffectPending,    \* the selection effect is scheduled (its deps changed)
  dlFetchInFlight,     \* deep-link ticket fetches awaiting their reply
  dlFailed,            \* history: a deep-link ticket fetch has failed
  resolvedByLink,      \* history: the current selection was made by the resolver
  checkedIn,           \* on-chain: the tickets whose checkedIn flag is set
  joins,               \* handleJoinEvent invocations
  checkIns,            \* handleCheckIn and handleOrganizerCheckInByAddress invocations
  creates,             \* handleCreateEvent invocations
  withdraws,           \* handleWithdraw invocations
  probe                \* one text put through extractTicketAddressFromInput

uiVars == <<href, mounted, program, wallet, events, txStatus, mainTab, selectedEvent>>

dlVars ==
  <<deepLinkTicket, deepLinkEventPubkey, fetchEffectPending, selEffectPending,
    dlFetchInFlight, dlFailed, resolvedByLink>>

vars == <<uiVars, dlVars, checkedIn, joins, checkIns, creates, withdraws, probe>>

Programs == {"P1", "P2"}

Tabs == {"explore", "tickets", "manage"}

\* Page URLs of the modelled loads: no ticket parameter, ticket T1, ticket T2,
\* a well-formed address that is no Ticket account, text that is no address,
\* and a ticket value of white space only.
Hrefs ==
  { HttpsScheme \o <<"x", "/">>,
    HttpsScheme \o <<"x", "/", "?">> \o TicketEq \o <<"T", "a">>,
    HttpsScheme \o <<"x", "/", "?">> \o TicketEq \o <<"T", "b", "+">>,
    HttpsScheme \o <<"x", "/", "?">> \o TicketEq \o <<"E", "a">>,
    HttpsScheme \o <<"x", "/", "?">> \o TicketEq \o <<"z", "z">>,
    HttpsScheme \o <<"x", "/", "?">> \o TicketEq \o <<"+">> }

\* ------------------------------------------------------------------ deep link

\* useEffect(..., []): parse ?ticket= from the page URL once on mount.  The
\* other two effects of the first commit return at once (no ticket yet).
MountEffect ==
  /\ ~mounted
  /\ mounted' = TRUE
  /\ LET url == UrlParse(href)
         ticketParam == IF url.ok THEN SearchParamsGetTicket(url.query) ELSE NullStr
     IN  IF Truthy(ticketParam)
         THEN /\ deepLinkTicket' = Some(Trim(ticketParam.s))
              /\ mainTab' = "explore"
              /\ fetchEffectPending' = TRUE
         ELSE UNCHANGED <<deepLinkTicket, mainTab, fetchEffectPending>>
  /\ UNCHANGED <<href, program, wallet, events, txStatus, selectedEvent,
                 deepLinkEventPubkey, selEffectPending, dlFetchInFlight, dlFailed,
                 resolvedByLink, checkedIn, joins, checkIns, creates, withdraws, probe>>

\* A slip that drops the resolved parent when the program handle changes.
ProgramChangeResets(p) ==
  /\ mounted
  /\ p # program
  /\ program' = p
  /\ fetchEffectPending' = TRUE
  /\ deepLinkEventPubkey' = NULL
  /\ UNCHANGED <<href, mounted, wallet, events, txStatus, mainTab, selectedEvent,
                 deepLinkTicket, selEffectPending,
                 dlFetchInFlight, dlFailed, resolvedByLink, checkedIn, joins, checkIns,
                 creates, withdraws, probe>>

\* useProgram() returns another handle: the ticket-fetch effect depends on it.
ProgramChange(p) ==
  /\ mounted
  /\ p # program
  /\ program' = p
  /\ fetchEffectPending' = TRUE
  /\ UNCHANGED <<href, mounted, wallet, events, txStatus, mainTab, selectedEvent,
                 deepLinkTicket, deepLinkEventPubkey, selEffectPending,
                 dlFetchInFlight, dlFailed, resolvedByLink, checkedIn, joins, checkIns,
                 creates, withdraws, probe>>

\* The catch block of the ticket-fetch effect.
DeepLinkFetchFailed ==
  /\ txStatus' = StInvalidLink
  /\ deepLinkEventPubkey' = NULL
  /\ selEffectPending' = (selEffectPending \/ deepLinkEventPubkey # NULL)
  /\ dlFailed' = TRUE

\* useEffect(..., [program, deepLinkTicket]): issue the ticket fetch.
RunFetchEffect ==
  /\ fetchEffectPending
  /\ fetchEffectPending' = FALSE
  /\ IF program = NULL \/ ~Truthy(deepLinkTicket)
     THEN UNCHANGED <<txStatus, deepLinkEventPubkey, selEffectPending, dlFailed,
                      dlFetchInFlight>>
     ELSE IF PublicKeyOf(deepLinkTicket.s) = NULL
     THEN DeepLinkFetchFailed /\ UNCHANGED dlFetchInFlight
     ELSE /\ dlFetchInFlight < MaxDlFetches
          /\ dlFetchInFlight' = dlFetchInFlight + 1
          /\ UNCHANGED <<txStatus, deepLinkEventPubkey, selEffectPending, dlFailed>>
  /\ UNCHANGED <<href, mounted, program, wallet, events, mainTab, selectedEvent,
                 deepLinkTicket, resolvedByLink, checkedIn, joins, checkIns,
                 creates, withdraws, probe>>

\* program.account.ticket.fetch resolves: the account is a Ticket.  Every
\* reply carries a new PublicKey object, so the selection effect is scheduled.
DlFetchResolve ==
  /\ dlFetchInFlight > 0
  /\ PublicKeyOf(deepLinkTicket.s) \in TicketKeys
  /\ dlFetchInFlight' = dlFetchInFlight - 1
  /\ deepLinkEventPubkey' = TicketEvent(PublicKeyOf(deepLinkTicket.s))
  /\ selEffectPending' = TRUE
  /\ UNCHANGED <<uiVars, deepLinkTicket, fetchEffectPending, dlFailed, resolvedByLink,
                 checkedIn, joins, checkIns, creates, withdraws, probe>>

\* program.account.ticket.fetch rejects: no such account, not a Ticket, or a
\* transport error.
DlFetchReject ==
  /\ dlFetchInFlight > 0
  /\ dlFetchInFlight' = dlFetchInFlight - 1
  /\ DeepLinkFetchFailed
  /\ UNCHANGED <<href, mounted, program, wallet, events, mainTab, selectedEvent,
                 deepLinkTicket, fetchEffectPending, resolvedByLink, checkedIn, joins,
                 checkIns, creates, withdraws, probe>>

\* A slip that leaves `events` out of the selection effect's dependencies.
EventsRefreshNoEffect(evs) ==
  /\ mounted
  /\ events' = evs
  /\ UNCHANGED <<href, mounted, program, wallet, txStatus, mainTab, selectedEvent,
                 dlVars, checkedIn, joins, checkIns, creates, withdraws, probe>>

\* A slip that lists `events` among the ticket-fetch effect's dependencies.
EventsRefreshRefetches(evs) ==
  /\ mounted
  /\ events' = evs
  /\ selEffectPending' = TRUE
  /\ fetchEffectPending' = TRUE
  /\ UNCHANGED <<href, mounted, program, wallet, txStatus, mainTab, selectedEvent,
                 deepLinkTicket, deepLinkEventPubkey,
                 dlFetchInFlight, dlFailed, resolvedByLink, checkedIn, joins, checkIns,
                 creates, withdraws, probe>>

\* useEvents() delivers a collection: a new array, so the selection effect is
\* scheduled whatever it holds.
EventsRefresh(evs) ==
  /\ mounted
  /\ events' = evs
  /\ selEffectPending' = TRUE
  /\ UNCHANGED <<href, mounted, program, wallet, txStatus, mainTab, selectedEvent,
                 deepLinkTicket, deepLinkEventPubkey, fetchEffectPending,
                 dlFetchInFlight, dlFailed, resolvedByLink, checkedIn, joins, checkIns,
                 creates, withdraws, probe>>

\* The selection effect found the ticket's event in the collection.
SelectionMatch ==
  /\ selectedEvent' = deepLinkEventPubkey
  /\ mainTab' = "explore"
  /\ resolvedByLink' = TRUE
  /\ UNCHANGED txStatus

\* A slip that reports the missing event as an error.
SelectionNoMatchAsError ==
  /\ txStatus' = StInvalidLink
  /\ UNCHANGED <<selectedEvent, mainTab, resolvedByLink>>

\* A slip that closes the details panel when the event is not in the collection.
SelectionNoMatchUnselects ==
  /\ selectedEvent' = NULL
  /\ resolvedByLink' = FALSE
  /\ UNCHANGED <<mainTab, txStatus>>

\* The selection effect found no such event: console.warn only.
SelectionNoMatch == UNCHANGED <<selectedEvent, mainTab, resolvedByLink, txStatus>>

\* useEffect(..., [deepLinkEventPubkey, events]): select the ticket's event.
RunSelectionEffect ==
  /\ selEffectPending
  /\ selEffectPending' = FALSE
  /\ IF deepLinkEventPubkey = NULL \/ events = {}
     THEN UNCHANGED <<selectedEvent, mainTab, resolvedByLink, txStatus>>
     ELSE IF deepLinkEventPubkey \in events
     THEN SelectionMatch
     ELSE SelectionNoMatch
  /\ UNCHANGED <<href, mounted, program, wallet, events, deepLinkTicket,
                 deepLinkEventPubkey, fetchEffectPending, dlFetchInFlight, dlFailed,
                 checkedIn, joins, checkIns, creates, withdraws, probe>>

\* EventsPanel onSelectEvent={setSelectedEvent}.
SelectEvent(e) ==
  /\ mounted
  /\ mainTab = "explore"
  /\ e \in events
  /\ selectedEvent' = e
  /\ resolvedByLink' = FALSE
  /\ UNCHANGED <<href, mounted, program, wallet, events, txStatus, mainTab,
                 deepLinkTicket, deepLinkEventPubkey, fetchEffectPending,
                 selEffectPending, dlFetchInFlight, dlFailed, checkedIn, joins,
                 checkIns, creates, withdraws, probe>>

\* EventDetailsPanel onClose={() => setSelectedEvent(null)}.
CloseDetails ==
  /\ mounted
  /\ mainTab = "explore"
  /\ selectedEvent # NULL
  /\ selectedEvent' = NULL
  /\ resolvedByLink' = FALSE
  /\ UNCHANGED <<href, mounted, program, wallet, events, txStatus, mainTab,
                 deepLinkTicket, deepLinkEventPubkey, fetchEffectPending,
                 selEffectPending, dlFetchInFlight, dlFailed, checkedIn, joins,
                 checkIns, creates, withdraws, probe>>

\* The main tab bar's onClick handlers.
SetMainTab(t) ==
  /\ mounted
  /\ t # mainTab
  /\ mainTab' = t
  /\ UNCHANGED <<href, mounted, program, wallet, events, txStatus, selectedEvent,
                 dlVars, checkedIn, joins, checkIns, creates, withdraws, probe>>

\* No text has been put through the extractor.  `output` is what the
\* extractor returned for `input`; `viaUrl` and `viaText` are what it returned
\* for the check-in URL and for the free text that carry `input` as ticket.
NoProbe ==
  [input |-> <<>>, called |-> FALSE, output |-> NullStr, viaUrl |-> NullStr,
   viaText |-> NullStr]

\* State after construction: every useState at its initial value, no effect
\* run, no handler invoked; the page URL, the program handle and the wallet
\* are whatever the page load finds.
InitApp ==
  /\ href \in Hrefs
  /\ mounted = FALSE
  /\ program \in Programs \cup {NULL}
  /\ wallet \in WalletKeys \cup {NULL}
  /\ events = {}
  /\ txStatus = StIdle
  /\ mainTab = "explore"
  /\ selectedEvent = NULL
  /\ deepLinkTicket = NullStr
  /\ deepLinkEventPubkey = NULL
  /\ fetchEffectPending = FALSE
  /\ selEffectPending = FALSE
  /\ dlFetchInFlight = 0
  /\ dlFailed = FALSE
  /\ resolvedByLink = FALSE
  /\ checkedIn \in SUBSET TicketKeys
  /\ joins = <<>>
  /\ checkIns = <<>>
  /\ creates = <<>>
  /\ withdraws = <<>>

Init == InitApp /\ probe = NoProbe

\* A page load with no wallet connected and no ticket checked in yet.
InitDeepLink == Init /\ wallet = NULL /\ checkedIn = {}

NextDeepLink ==
  \/ MountEffect
  \/ \E p \in Programs \cup {NULL} : ProgramChange(p)
  \/ RunFetchEffect
  \/ DlFetchResolve
  \/ DlFetchReject
  \/ \E evs \in SUBSET EventKeys : EventsRefresh(evs)
  \/ RunSelectionEffect
  \/ \E e \in EventKeys : SelectEvent(e)
  \/ CloseDetails
  \/ \E t \in Tabs : SetMainTab(t)

\* The deep-link resolver with the page's other inputs.
SpecDeepLink == InitDeepLink /\ [][NextDeepLink]_vars

\* React runs every scheduled effect, and every fetch is answered.
FairDeepLink ==
  /\ SpecDeepLink
  /\ WF_vars(RunFetchEffect)
  /\ WF_vars(RunSelectionEffect)
  /\ WF_vars(DlFetchResolve \/ DlFetchReject)

\* ------------------------------------------------------------------ join_event

\* The page URL without a ticket parameter.
PlainHref == HttpsScheme \o <<"x", "/">>

\* What `new PublicKey` throws on malformed text.
InvalidKeyError ==
  [errorMessage |-> NULL, message |-> "Invalid public key input", logs |-> FALSE]

\* The eventPubkey values the forms pass: none, the two events, a wallet's
\* address (well formed, no event) and text that is no address.
JoinInputs == {<<>>, toBase58("E1"), toBase58("E2"), toBase58("W2"), <<"z", "z">>}

\* PublicKey.findProgramAddressSync([utf8("mint_auth"), mint.toBytes()],
\* PROGRAM_ID): the address derived from the seed and the mint.
mintAuthPda(mint) == <<"mint_auth", mint>>

\* getAssociatedTokenAddress(mint, user): the address derived from both.
getAssociatedTokenAddress(mint, user) == <<"ata", user, mint>>

\* No transaction built yet: what `setupTx` and `joinAccounts` hold until then.
NoAccounts == [mint |-> 0, mintAuthority |-> <<>>, buyerAta |-> <<>>]

\* The accounts of createMintIx, initMintIx and createAtaIx, built from the
\* invocation's own constants `mint` and `user`.
SetupAccounts(mint, user) ==
  [mint |-> mint, mintAuthority |-> mintAuthPda(mint),
   buyerAta |-> getAssociatedTokenAddress(mint, user)]

\* The mint, mintAuthority and buyerAta of the .accounts({...}) of joinEvent,
\* the same constants of the same invocation.
JoinEventAccounts(mint, user) ==
  [mint |-> mint, mintAuthority |-> mintAuthPda(mint),
   buyerAta |-> getAssociatedTokenAddress(mint, user)]

\* An invocation that has returned.  `absent`, `setupFailed`, `setupAtJoin`,
\* `sends`, `subs` and `outcome` are history: the address was well formed and
\* not among the loaded events, which setup step threw, the state of the
\* setup transaction when joinEvent was submitted ("none" while it has not
\* been), how many times wallet.sendTransaction and joinEvent().rpc() were
\* called, and the kind of the last status the invocation wrote.  `mint` is
\* the mint key pair the invocation generated, 0 while it has generated none
\* (Keypair.generate draws a new random key at every call: the number of the
\* invocation stands for it).  `setupTx` holds the accounts of the setup
\* transaction handed to wallet.sendTransaction and `joinAccounts` those of
\* the joinEvent instruction handed to rpc().
JoinReturned(st) ==
  [pc |-> "done", event |-> NULL, user |-> NULL, mint |-> 0, setup |-> "none",
   setupTx |-> NoAccounts, joinAccounts |-> NoAccounts,
   absent |-> FALSE, setupFailed |-> "no", setupAtJoin |-> "none", sends |-> 0,
   subs |-> 0, outcome |-> st.kind]

\* A slip that tests the local list only after the mint key and the rent query.
JoinStartLateFind(raw) ==
  /\ mounted
  /\ Len(joins) < MaxJoins
  /\ program # NULL /\ wallet # NULL /\ raw # <<>> /\ PublicKeyOf(raw) # NULL
  /\ joins' = Append(joins,
       [JoinReturned(StPreparingJoin) EXCEPT
          !.pc = "rent", !.event = PublicKeyOf(raw), !.user = wallet,
          !.mint = Len(joins) + 1, !.absent = PublicKeyOf(raw) \notin events])
  /\ txStatus' = StPreparingJoin
  /\ UNCHANGED <<href, mounted, program, wallet, events, mainTab, selectedEvent,
                 dlVars, checkedIn, checkIns, creates, withdraws, probe>>

\* handleJoinEvent up to its first await on the network
\* (getMinimumBalanceForRentExemption).
JoinStart(raw) ==
  /\ mounted
  /\ Len(joins) < MaxJoins
  /\ IF program = NULL \/ wallet = NULL
     THEN /\ joins' = Append(joins, JoinReturned(StIdle))
          /\ UNCHANGED txStatus
     ELSE IF raw = <<>>
     THEN /\ joins' = Append(joins, JoinReturned(StSelectEventToJoin))
          /\ txStatus' = StSelectEventToJoin
     ELSE IF PublicKeyOf(raw) = NULL
     THEN /\ joins' = Append(joins, JoinReturned(handleError(InvalidKeyError)))
          /\ txStatus' = handleError(InvalidKeyError)
     ELSE IF PublicKeyOf(raw) \notin events
     THEN /\ joins' = Append(joins,
               [JoinReturned(StNotInLocalList) EXCEPT !.absent = TRUE])
          /\ txStatus' = StNotInLocalList
     ELSE /\ joins' = Append(joins,
                        [pc |-> "rent", event |-> PublicKeyOf(raw), user |-> wallet,
                         mint |-> Len(joins) + 1, setup |-> "none",
                         setupTx |-> NoAccounts, joinAccounts |-> NoAccounts,
                         absent |-> FALSE, setupFailed |-> "no",
                         setupAtJoin |-> "none", sends |-> 0, subs |-> 0,
                         outcome |-> StPreparingJoin.kind])
          /\ txStatus' = StPreparingJoin
  /\ UNCHANGED <<href, mounted, program, wallet, events, mainTab, selectedEvent,
                 dlVars, checkedIn, checkIns, creates, withdraws, probe>>

\* The rent query answered: the setup transaction is built and handed to
\* wallet.sendTransaction.
JoinRentResolved(i) ==
  /\ joins[i].pc = "rent"
  /\ joins' = [joins EXCEPT ![i].pc = "send", ![i].sends = joins[i].sends + 1,
                            ![i].setupTx =
                              SetupAccounts(joins[i].mint, joins[i].user)]
  /\ UNCHANGED <<uiVars, dlVars, checkedIn, checkIns, creates, withdraws, probe>>

\* A slip that catches the setup error by itself and goes on to joinEvent.
JoinSetupThrewSwallowed(i, e, step) ==
  /\ joins' = [joins EXCEPT ![i].pc = "join", ![i].setupFailed = step,
                            ![i].setupAtJoin = joins[i].setup,
                            ![i].outcome = StCallingJoin.kind]
  /\ txStatus' = StCallingJoin

\* The catch block, reached from a throw of the setup step `step`.
JoinSetupThrew(i, e, step) ==
  /\ joins' = [joins EXCEPT ![i].pc = "done", ![i].setupFailed = step,
                            ![i].outcome = handleError(e).kind]
  /\ txStatus' = handleError(e)

\* The rent query threw.
JoinRentRejected(i, e) ==
  /\ joins[i].pc = "rent"
  /\ JoinSetupThrew(i, e, "rent")
  /\ UNCHANGED <<href, mounted, program, wallet, events, mainTab, selectedEvent,
                 dlVars, checkedIn, checkIns, creates, withdraws, probe>>

\* Inside wallet.sendTransaction: the user approved and the signed setup
\* transaction was sent to the network.
JoinSetupBroadcast(i) ==
  /\ joins[i].pc = "send"
  /\ joins[i].setup = "none"
  /\ joins' = [joins EXCEPT ![i].setup = "sent"]
  /\ UNCHANGED <<uiVars, dlVars, checkedIn, checkIns, creates, withdraws, probe>>

\* The network confirms a setup transaction it was sent.
SetupTxConfirmed(i) ==
  /\ joins[i].setup = "sent"
  /\ joins' = [joins EXCEPT ![i].setup = "confirmed"]
  /\ UNCHANGED <<uiVars, dlVars, checkedIn, checkIns, creates, withdraws, probe>>

\* The network drops a setup transaction it was sent (expired or failed).
SetupTxDropped(i) ==
  /\ joins[i].setup = "sent"
  /\ joins' = [joins EXCEPT ![i].setup = "dropped"]
  /\ UNCHANGED <<uiVars, dlVars, checkedIn, checkIns, creates, withdraws, probe>>

\* wallet.sendTransaction threw (the user rejected, or the send failed).
JoinSendRejected(i, e) ==
  /\ joins[i].pc = "send"
  /\ joins[i].setup = "none"
  /\ JoinSetupThrew(i, e, "send")
  /\ UNCHANGED <<href, mounted, program, wallet, events, mainTab, selectedEvent,
                 dlVars, checkedIn, checkIns, creates, withdraws, probe>>

\* A slip that keeps the mint key in one place shared by all invocations
\* (a ref of the component), so that joinEvent reads the key generated last.
JoinSendResolvedSharedMint(i) ==
  /\ joins[i].pc = "send"
  /\ joins[i].setup # "none"
  /\ joins' = [joins EXCEPT ![i].pc = "join", ![i].setupAtJoin = joins[i].setup,
                            ![i].subs = joins[i].subs + 1,
                            ![i].outcome = StCallingJoin.kind,
                            ![i].joinAccounts =
                              JoinEventAccounts(joins[Len(joins)].mint,
                                                joins[i].user)]
  /\ txStatus' = StCallingJoin
  /\ UNCHANGED <<href, mounted, program, wallet, events, mainTab, selectedEvent,
                 dlVars, checkedIn, checkIns, creates, withdraws, probe>>

\* wallet.sendTransaction resolved with the signature of the sent
\* transaction; the handler goes straight on to program.methods.joinEvent().rpc().
JoinSendResolved(i) ==
  /\ joins[i].pc = "send"
  /\ joins[i].setup # "none"
  /\ joins' = [joins EXCEPT ![i].pc = "join", ![i].setupAtJoin = joins[i].setup,
                            ![i].subs = joins[i].subs + 1,
                            ![i].outcome = StCallingJoin.kind,
                            ![i].joinAccounts =
                              JoinEventAccounts(joins[i].mint, joins[i].user)]
  /\ txStatus' = StCallingJoin
  /\ UNCHANGED <<href, mounted, program, wallet, events, mainTab, selectedEvent,
                 dlVars, checkedIn, checkIns, creates, withdraws, probe>>

\* joinEvent().rpc() resolved: the instruction ran, which needs the mint and
\* the associated account of the setup transaction to exist.
JoinRpcResolved(i) ==
  /\ joins[i].pc = "join"
  /\ joins[i].setup = "confirmed"
  /\ joins' = [joins EXCEPT ![i].pc = "refresh", ![i].outcome = StJoined.kind]
  /\ txStatus' = StJoined
  /\ UNCHANGED <<href, mounted, program, wallet, events, mainTab, selectedEvent,
                 dlVars, checkedIn, checkIns, creates, withdraws, probe>>

\* joinEvent().rpc() threw.
JoinRpcRejected(i, e) ==
  /\ joins[i].pc = "join"
  /\ joins' = [joins EXCEPT ![i].pc = "done", ![i].outcome = handleError(e).kind]
  /\ txStatus' = handleError(e)
  /\ UNCHANGED <<href, mounted, program, wallet, events, mainTab, selectedEvent,
                 dlVars, checkedIn, checkIns, creates, withdraws, probe>>

\* await refreshTickets() returned.
JoinRefreshed(i) ==
  /\ joins[i].pc = "refresh"
  /\ joins' = [joins EXCEPT ![i].pc = "done"]
  /\ UNCHANGED <<uiVars, dlVars, checkedIn, checkIns, creates, withdraws, probe>>

\* A page load without a deep link, with or without program and wallet.
InitJoin ==
  /\ Init
  /\ href = PlainHref
  /\ program \in {NULL, "P1"}
  /\ wallet \in {NULL, "W1"}
  /\ checkedIn = {}

NextJoin ==
  \/ MountEffect
  \/ \E evs \in {{"E1"}} : EventsRefresh(evs)
  \/ RunSelectionEffect
  \/ \E raw \in JoinInputs : JoinStart(raw)
  \/ \E i \in DOMAIN joins : JoinRentResolved(i)
  \/ \E i \in DOMAIN joins, e \in Errors : JoinRentRejected(i, e)
  \/ \E i \in DOMAIN joins : JoinSetupBroadcast(i)
  \/ \E i \in DOMAIN joins : SetupTxConfirmed(i)
  \/ \E i \in DOMAIN joins : SetupTxDropped(i)
  \/ \E i \in DOMAIN joins, e \in Errors : JoinSendRejected(i, e)
  \/ \E i \in DOMAIN joins : JoinSendResolved(i)
  \/ \E i \in DOMAIN joins : JoinRpcResolved(i)
  \/ \E i \in DOMAIN joins, e \in Errors : JoinRpcRejected(i, e)
  \/ \E i \in DOMAIN joins : JoinRefreshed(i)

\* The join-event handler, invoked up to MaxJoins times, with the network.
SpecJoin == InitJoin /\ [][NextJoin]_vars

\* ------------------------------------------------------------------ claims C1-C2

\* C1: whenever an invocation has submitted joinEvent, its setup transaction
\* was confirmed at that moment.
C1_JoinOnlyAfterSetupConfirmed ==
  \A i \in DOMAIN joins :
    joins[i].setupAtJoin # "none" => joins[i].setupAtJoin = "confirmed"

\* C2: an invocation whose setup step threw has submitted no joinEvent, has
\* returned, and the last status it wrote is a failure.
C2_SetupFailurePreventsJoin ==
  \A i \in DOMAIN joins :
    joins[i].setupFailed # "no" =>
      /\ joins[i].setupAtJoin = "none"
      /\ joins[i].pc = "done"
      /\ joins[i].outcome = "fail"

\* One invocation failed in the rent query and another in sendTransaction.
C2_Witness ==
  /\ \E i \in DOMAIN joins : joins[i].setupFailed = "rent" /\ txStatus.kind = "fail"
  /\ \E i \in DOMAIN joins : joins[i].setupFailed = "send"

\* ------------------------------------------------------------------ check_in by address

\* Pasted or scanned values: nothing, white space, text that is no address,
\* a raw ticket address, a raw address that is no ticket, the QR code's URL,
\* a URL without the parameter, and a bare query fragment.
CheckInInputs ==
  { <<>>,
    <<" ", " ">>,
    <<"n", "o", "t", "-", "a", "-", "v", "a", "l", "i", "d", "-",
      "a", "d", "d", "r", "e", "s", "s">>,
    toBase58("T1"),
    <<" ">> \o toBase58("T2") \o <<"\n">>,
    toBase58("E1"),
    HttpsScheme \o <<"x", "/", "c", "?">> \o TicketEq \o toBase58("T2"),
    HttpsScheme \o <<"x", "/", "?", "o", "=", "1">>,
    TicketEq \o toBase58("T1") \o <<"&", "x">> }

NoSnap == [found |-> FALSE]

\* An invocation that has returned before any fetch, with the wallet key and
\* the program handle of its closure.  `path` tells the handler: "address" for
\* handleOrganizerCheckInByAddress, "ticket" for handleCheckIn.  `noId`,
\* `badKey`, `fetched`, `submitted`, `subs`, `staleSubmit` and `outcome` are
\* history: nothing was extracted from the input; an identifier was
\* extracted that is no well-formed address; a ticket fetch was issued; checkIn
\* was submitted, and how many times; the ticket was checked in on chain when
\* it was; the last status the invocation wrote.
CheckInReturned(ev, raw, st) ==
  [pc |-> "done", path |-> "address", event |-> ev, caller |-> wallet,
   prog |-> program, ticket |-> NULL, snap |-> NoSnap, subs |-> 0,
   noId |-> ~Truthy(extractTicketAddressFromInput(raw)),
   badKey |-> (/\ Truthy(extractTicketAddressFromInput(raw))
               /\ PublicKeyOf(extractTicketAddressFromInput(raw).s) = NULL),
   fetched |-> FALSE, submitted |-> FALSE, staleSubmit |-> FALSE, outcome |-> st]

\* A slip that leaves out the organizer test.
CheckInPreflightNoOrganizerTest(extracted, ev, caller) ==
  IF ~Truthy(extracted) THEN StNoTicketAddress
  ELSE IF PublicKeyOf(extracted.s) = NULL THEN StInvalidTicketKey
  ELSE StIdle

\* A slip that leaves out the try/catch around `new PublicKey`.
CheckInPreflightNoKeyTest(extracted, ev, caller) ==
  IF ~Truthy(extracted) THEN StNoTicketAddress
  ELSE IF Organizer(ev) # caller THEN StOrganizerOnly
  ELSE StIdle

\* The tests before the fetch, in the handler's order: the status the first
\* failing one sets, StIdle when all pass.
CheckInPreflight(extracted, ev, caller) ==
  IF ~Truthy(extracted) THEN StNoTicketAddress
  ELSE IF Organizer(ev) # caller THEN StOrganizerOnly
  ELSE IF PublicKeyOf(extracted.s) = NULL THEN StInvalidTicketKey
  ELSE StIdle

\* handleOrganizerCheckInByAddress up to the ticket fetch.
CheckInStart(raw, ev) ==
  /\ mounted
  /\ Len(checkIns) < MaxCheckIns
  /\ LET extracted == extractTicketAddressFromInput(raw)
         failed    == CheckInPreflight(extracted, ev, wallet)
     IN  IF program = NULL \/ wallet = NULL
         THEN /\ checkIns' = Append(checkIns, CheckInReturned(ev, raw, StIdle))
              /\ UNCHANGED txStatus
         ELSE IF failed # StIdle
         THEN /\ checkIns' = Append(checkIns, CheckInReturned(ev, raw, failed))
              /\ txStatus' = failed
         ELSE /\ checkIns' = Append(checkIns,
                   [CheckInReturned(ev, raw, StIdle) EXCEPT
                      !.pc = "fetch", !.ticket = PublicKeyOf(extracted.s),
                      !.fetched = TRUE])
              /\ UNCHANGED txStatus
  /\ UNCHANGED <<href, mounted, program, wallet, events, mainTab, selectedEvent,
                 dlVars, checkedIn, joins, creates, withdraws, probe>>

\* The RPC node reads the Ticket account for a fetch: the reply carries the
\* account as it is at that moment.
CheckInFetchServed(i) ==
  /\ checkIns[i].pc = "fetch"
  /\ checkIns[i].ticket \in TicketKeys
  /\ checkIns' = [checkIns EXCEPT
       ![i].pc = "reply",
       ![i].snap = [found |-> TRUE, event |-> TicketEvent(checkIns[i].ticket),
                    checkedIn |-> checkIns[i].ticket \in checkedIn]]
  /\ UNCHANGED <<uiVars, dlVars, checkedIn, joins, creates, withdraws, probe>>

\* ticket.fetch threw: no such account, not a Ticket, or a transport error.
CheckInFetchRejected(i) ==
  /\ checkIns[i].pc = "fetch"
  /\ checkIns' = [checkIns EXCEPT ![i].pc = "done", ![i].outcome = StNotTicketAccount]
  /\ txStatus' = StNotTicketAccount
  /\ UNCHANGED <<href, mounted, program, wallet, events, mainTab, selectedEvent,
                 dlVars, checkedIn, joins, creates, withdraws, probe>>

\* A slip that leaves out the comparison of the ticket's event.
CheckInDecisionAnyEvent(snap, ev) ==
  IF snap.checkedIn THEN "already" ELSE "submit"

\* A slip that leaves out the checkedIn test.
CheckInDecisionNoFlag(snap, ev) ==
  IF snap.event # ev THEN "different" ELSE "submit"

\* The two tests on the fetched ticket, in the handler's order.
CheckInDecision(snap, ev) ==
  IF snap.event # ev THEN "different"
  ELSE IF snap.checkedIn THEN "already"
  ELSE "submit"

\* ticket.fetch resolved: test the ticket, then submit checkIn().rpc().
CheckInFetchResolved(i) ==
  /\ checkIns[i].pc = "reply"
  /\ LET d == CheckInDecision(checkIns[i].snap, checkIns[i].event)
     IN  CASE d = "different" ->
                /\ checkIns' = [checkIns EXCEPT ![i].pc = "done",
                                                ![i].outcome = StDifferentEvent]
                /\ txStatus' = StDifferentEvent
           [] d = "already" ->
                /\ checkIns' = [checkIns EXCEPT ![i].pc = "done",
                                                ![i].outcome = StAlreadyCheckedIn]
                /\ txStatus' = StAlreadyCheckedIn
           [] d = "submit" ->
                /\ checkIns' = [checkIns EXCEPT
                     ![i].pc = "rpc", ![i].submitted = TRUE,
                     ![i].subs = checkIns[i].subs + 1,
                     ![i].staleSubmit = (checkIns[i].ticket \in checkedIn),
                     ![i].outcome = StCheckingIn]
                /\ txStatus' = StCheckingIn
  /\ UNCHANGED <<href, mounted, program, wallet, events, mainTab, selectedEvent,
                 dlVars, checkedIn, joins, creates, withdraws, probe>>

\* The check_in instruction's effect on the chain: the ticket's flag is set.
ChainCheckIn(t) == checkedIn \cup {t}

\* checkIn().rpc() resolved: the instruction ran.
CheckInRpcResolved(i) ==
  /\ checkIns[i].pc = "rpc"
  /\ checkedIn' = ChainCheckIn(checkIns[i].ticket)
  /\ checkIns' = [checkIns EXCEPT ![i].pc = "refresh", ![i].outcome = StCheckedIn]
  /\ txStatus' = StCheckedIn
  /\ UNCHANGED <<href, mounted, program, wallet, events, mainTab, selectedEvent,
                 dlVars, joins, creates, withdraws, probe>>

\* checkIn().rpc() threw.
CheckInRpcRejected(i, e) ==
  /\ checkIns[i].pc = "rpc"
  /\ checkIns' = [checkIns EXCEPT ![i].pc = "done", ![i].outcome = handleError(e)]
  /\ txStatus' = handleError(e)
  /\ UNCHANGED <<href, mounted, program, wallet, events, mainTab, selectedEvent,
                 dlVars, checkedIn, joins, creates, withdraws, probe>>

\* await refreshTickets() returned.
CheckInRefreshed(i) ==
  /\ checkIns[i].pc = "refresh"
  /\ checkIns' = [checkIns EXCEPT ![i].pc = "done"]
  /\ UNCHANGED <<uiVars, dlVars, checkedIn, joins, creates, withdraws, probe>>

\* handleCheckIn, from a ticket of the tickets panel, up to checkIn().rpc().
TicketCheckInStart(t, ev) ==
  /\ mounted
  /\ Len(checkIns) < MaxCheckIns
  /\ LET returned(st) ==
           [CheckInReturned(ev, <<>>, st) EXCEPT !.path = "ticket", !.noId = FALSE]
     IN  IF program = NULL \/ wallet = NULL
         THEN /\ checkIns' = Append(checkIns, returned(StIdle))
              /\ UNCHANGED txStatus
         ELSE IF Organizer(ev) # wallet
         THEN /\ checkIns' = Append(checkIns, returned(StOrganizerOnly))
              /\ txStatus' = StOrganizerOnly
         ELSE /\ checkIns' = Append(checkIns,
                   [returned(StSendingCheckIn) EXCEPT
                      !.pc = "call", !.ticket = t, !.submitted = TRUE, !.subs = 1,
                      !.staleSubmit = (t \in checkedIn)])
              /\ txStatus' = StSendingCheckIn
  /\ UNCHANGED <<href, mounted, program, wallet, events, mainTab, selectedEvent,
                 dlVars, checkedIn, joins, creates, withdraws, probe>>

\* handleCheckIn: checkIn().rpc() resolved.
TicketCheckInRpcResolved(i) ==
  /\ checkIns[i].pc = "call"
  /\ checkedIn' = ChainCheckIn(checkIns[i].ticket)
  /\ checkIns' = [checkIns EXCEPT ![i].pc = "reload", ![i].outcome = StCheckInTx]
  /\ txStatus' = StCheckInTx
  /\ UNCHANGED <<href, mounted, program, wallet, events, mainTab, selectedEvent,
                 dlVars, joins, creates, withdraws, probe>>

\* handleCheckIn: checkIn().rpc() threw.
TicketCheckInRpcRejected(i, e) ==
  /\ checkIns[i].pc = "call"
  /\ checkIns' = [checkIns EXCEPT ![i].pc = "done", ![i].outcome = handleError(e)]
  /\ txStatus' = handleError(e)
  /\ UNCHANGED <<href, mounted, program, wallet, events, mainTab, selectedEvent,
                 dlVars, checkedIn, joins, creates, withdraws, probe>>

\* handleCheckIn: await refreshTickets() returned.
TicketCheckInRefreshed(i) ==
  /\ checkIns[i].pc = "reload"
  /\ checkIns' = [checkIns EXCEPT ![i].pc = "done"]
  /\ UNCHANGED <<uiVars, dlVars, checkedIn, joins, creates, withdraws, probe>>

\* A page load without a deep link; some tickets may be checked in already.
InitCheckIn ==
  /\ Init
  /\ href = PlainHref
  /\ program \in {NULL, "P1"}

NextCheckIn ==
  \/ MountEffect
  \/ \E raw \in CheckInInputs, ev \in EventKeys : CheckInStart(raw, ev)
  \/ \E i \in DOMAIN checkIns : CheckInFetchServed(i)
  \/ \E i \in DOMAIN checkIns : CheckInFetchRejected(i)
  \/ \E i \in DOMAIN checkIns : CheckInFetchResolved(i)
  \/ \E i \in DOMAIN checkIns : CheckInRpcResolved(i)
  \/ \E i \in DOMAIN checkIns, e \in Errors : CheckInRpcRejected(i, e)
  \/ \E i \in DOMAIN checkIns : CheckInRefreshed(i)
  \/ \E t \in TicketKeys, ev \in EventKeys : TicketCheckInStart(t, ev)
  \/ \E i \in DOMAIN checkIns : TicketCheckInRpcResolved(i)
  \/ \E i \in DOMAIN checkIns, e \in Errors : TicketCheckInRpcRejected(i, e)
  \/ \E i \in DOMAIN checkIns : TicketCheckInRefreshed(i)

\* The two check-in handlers, invoked up to MaxCheckIns times, with the chain.
SpecCheckIn == InitCheckIn /\ [][NextCheckIn]_vars

\* ------------------------------------------------------------------ claims C8-C10

\* C8 as stated: whoever the caller, an identifier that is no well-formed
\* address ends in 'Invalid ticket public key' with no fetch and no checkIn.
C8_InvalidKeyForEveryCaller ==
  \A i \in DOMAIN checkIns :
    checkIns[i].badKey /\ checkIns[i].caller # NULL /\ checkIns[i].prog # NULL =>
      /\ checkIns[i].outcome = StInvalidTicketKey
      /\ ~checkIns[i].fetched
      /\ ~checkIns[i].submitted

\* C8 amended: such an identifier never leads to a fetch or a checkIn, and it
\* ends in 'Invalid ticket public key' when the caller is the event's organizer
\* (with program and wallet present); another caller gets the organizer-only
\* status, which is tested first.
C8_InvalidKeyForOrganizer ==
  \A i \in DOMAIN checkIns :
    checkIns[i].badKey =>
      /\ checkIns[i].pc = "done"
      /\ ~checkIns[i].fetched
      /\ ~checkIns[i].submitted
      /\ (checkIns[i].prog # NULL /\ checkIns[i].caller = Organizer(checkIns[i].event)
            => checkIns[i].outcome = StInvalidTicketKey)
      /\ (checkIns[i].prog # NULL
            /\ checkIns[i].caller \notin {NULL, Organizer(checkIns[i].event)}
            => checkIns[i].outcome = StOrganizerOnly)

\* The organizer pasted text that is no address.
C8_Witness ==
  \E i \in DOMAIN checkIns :
    /\ checkIns[i].badKey
    /\ checkIns[i].caller = Organizer(checkIns[i].event)
    /\ checkIns[i].outcome = StInvalidTicketKey
    /\ txStatus = StInvalidTicketKey

\* C9: a fetched ticket of another event ends the invocation in 'different
\* event' with no checkIn, and the three outcomes tell the three cases apart:
\* 'different event' only for a fetched ticket of another event, 'not a Ticket
\* account' only when the fetch threw, 'already checked in' only for a fetched
\* ticket of this event with its flag set.
C9_DifferentEventDistinct ==
  \A i \in DOMAIN checkIns :
    LET c == checkIns[i]
    IN  /\ (c.snap.found /\ c.pc # "reply" /\ c.snap.event # c.event
              => c.outcome = StDifferentEvent /\ c.pc = "done" /\ ~c.submitted)
        /\ (c.outcome = StDifferentEvent => c.snap.found /\ c.snap.event # c.event)
        /\ (c.outcome = StNotTicketAccount => c.fetched /\ ~c.snap.found)
        /\ (c.outcome = StAlreadyCheckedIn
              => c.snap.found /\ c.snap.event = c.event /\ c.snap.checkedIn)

\* The organizer of E1 pasted the address of a ticket of E2.
C9_Witness ==
  \E i \in DOMAIN checkIns :
    /\ checkIns[i].event = "E1"
    /\ checkIns[i].ticket = "T2"
    /\ checkIns[i].outcome = StDifferentEvent
    /\ txStatus = StDifferentEvent

\* C10 as stated: a fetched ticket with its flag set ends in the informational
\* status with no checkIn, and the check-in by address never submits checkIn
\* for a ticket that is checked in on chain.
C10_NeverSubmitsForCheckedIn ==
  \A i \in DOMAIN checkIns :
    LET c == checkIns[i]
    IN  c.path = "address" =>
        /\ (c.snap.found /\ c.pc # "reply" /\ c.snap.event = c.event /\ c.snap.checkedIn
              => c.outcome = StAlreadyCheckedIn /\ ~c.submitted)
        /\ ~c.staleSubmit

\* C10 amended: a fetched ticket of this event with its flag set ends in the
\* informational status with no checkIn, and the check-in by address submits
\* checkIn only on a fetched record whose flag was clear.
C10_StopsOnFetchedFlag ==
  \A i \in DOMAIN checkIns :
    LET c == checkIns[i]
    IN  c.path = "address" =>
        /\ (c.snap.found /\ c.pc # "reply" /\ c.snap.event = c.event /\ c.snap.checkedIn
              => /\ c.outcome = StAlreadyCheckedIn
                 /\ c.outcome.kind = "info"
                 /\ c.pc = "done"
                 /\ ~c.submitted)
        /\ (c.submitted => c.snap.found /\ ~c.snap.checkedIn)

\* One invocation checked the ticket in and a later one stopped on the flag.
C10_Witness ==
  /\ \E i \in DOMAIN checkIns : checkIns[i].outcome = StCheckedIn
  /\ \E j \in DOMAIN checkIns :
       /\ checkIns[j].snap.found
       /\ checkIns[j].snap.checkedIn
       /\ checkIns[j].outcome = StAlreadyCheckedIn
       /\ ~checkIns[j].submitted

\* ------------------------------------------------------------------ claims C3-C7

\* C3: when the ticket fetch has answered with event E1 and the events
\* collection holds E1 (in whichever order the two arrived, and from then
\* on), the selected event eventually equals E1.
C3_DeepLinkResolves ==
  \A e \in EventKeys :
    <>[](deepLinkEventPubkey = e /\ e \in events) => <>(selectedEvent = e)

\* The resolver selected E1 for the link's ticket T1.
C3_Witness ==
  /\ deepLinkTicket = Some(toBase58("T1"))
  /\ deepLinkEventPubkey = "E1"
  /\ "E1" \in events
  /\ resolvedByLink
  /\ selectedEvent = "E1"

\* C4: a run of the selection effect with a resolved parent and a non-empty
\* collection that holds no such event leaves the selection as it was (null
\* stays null) and writes no status.
C4_NoMatchStaysUnresolved ==
  [][(/\ selEffectPending /\ ~selEffectPending'
      /\ deepLinkEventPubkey # NULL
      /\ events # {}
      /\ deepLinkEventPubkey \notin events)
     => (selectedEvent' = selectedEvent /\ txStatus' = txStatus)]_vars

\* The effect has run on parent E1 with a collection holding only E2.
C4_Witness ==
  /\ deepLinkEventPubkey = "E1"
  /\ events = {"E2"}
  /\ ~selEffectPending
  /\ selectedEvent = NULL
  /\ txStatus = StIdle

C6_RefreshKeepsSelection ==
  [][(/\ resolvedByLink
      /\ \/ events' # events
         \/ selEffectPending /\ ~selEffectPending')
     => (selectedEvent' = selectedEvent /\ resolvedByLink')]_vars

\* The selection made for E1 stands after a refresh without E1 and the
\* effect's run on it.
C6_Witness ==
  /\ resolvedByLink
  /\ selectedEvent = "E1"
  /\ deepLinkEventPubkey = "E1"
  /\ events = {"E2"}
  /\ ~selEffectPending

\* C7 as stated: after a failed deep-link fetch no later step issues the fetch again.
C7_TerminalFailure ==
  [][dlFailed => dlFetchInFlight' <= dlFetchInFlight]_vars

\* C7 amended: the first failure sets the status and clears the parent, and
\* after a failure the fetch effect is scheduled only by a change of the
\* program handle and a fetch is issued only by that effect.
C7_RefetchOnlyOnProgramChange ==
  [][/\ (~dlFailed /\ dlFailed'
           => txStatus' = StInvalidLink /\ deepLinkEventPubkey' = NULL)
     /\ (dlFailed /\ ~fetchEffectPending /\ fetchEffectPending'
           => program' # program)
     /\ (dlFailed /\ dlFetchInFlight' > dlFetchInFlight
           => fetchEffectPending /\ ~fetchEffectPending')]_vars

\* After a failure the collection was refreshed and the selection effect ran,
\* and no fetch is scheduled or in flight.
C7_Witness ==
  /\ dlFailed
  /\ txStatus = StInvalidLink
  /\ deepLinkEventPubkey = NULL
  /\ events # {}
  /\ ~selEffectPending
  /\ ~fetchEffectPending
  /\ dlFetchInFlight = 0

\* ------------------------------------------------------------------ numbers

\* The decimal digits, in order of value.
Digits == <<"0", "1", "2", "3", "4", "5", "6", "7", "8", "9">>

IsDigit(c) == \E d \in DOMAIN Digits : Digits[d] = c

DigitValue(c) == (CHOOSE d \in DOMAIN Digits : Digits[d] = c) - 1

\* The longest prefix of s made of digits.
DigitRun(s) ==
  LET idx == {i \in DOMAIN s : ~IsDigit(s[i])}
  IN  IF idx = {} THEN s
      ELSE SubSeq(s, 1, (CHOOSE i \in idx : \A j \in idx : i <= j) - 1)

RECURSIVE DigitsValue(_)
\* The number a run of digits denotes.
DigitsValue(s) ==
  IF s = <<>> THEN 0
  ELSE 10 * DigitsValue(SubSeq(s, 1, Len(s) - 1)) + DigitValue(s[Len(s)])

RECURSIVE Pow10(_)
Pow10(n) == IF n = 0 THEN 1 ELSE 10 * Pow10(n - 1)

\* A JavaScript number as far as the handlers use one: NaN, or the exact
\* value num / den (den > 0).  The texts the forms pass below are ones whose
\* double-precision product with the unit scale equals the exact one.
NaN == [nan |-> TRUE, num |-> 0, den |-> 1]

\* parseFloat: leading white space is skipped, then the longest prefix that
\* is a decimal literal (sign, digits, '.', digits) is read and what follows
\* is ignored; NaN when that prefix holds no digit.  Exponents and
\* 'Infinity' are not read: no text below has them.
parseFloat(s) ==
  LET t     == Trim(s)
      neg   == t # <<>> /\ t[1] = "-"
      u     == IF t # <<>> /\ t[1] \in {"-", "+"} THEN Tail(t) ELSE t
      ip    == DigitRun(u)
      after == SubSeq(u, Len(ip) + 1, Len(u))
      fp    == IF after # <<>> /\ after[1] = "." THEN DigitRun(Tail(after)) ELSE <<>>
  IN  IF Len(ip) + Len(fp) = 0 THEN NaN
      ELSE [nan |-> FALSE,
            num |-> (IF neg THEN -1 ELSE 1) * DigitsValue(ip \o fp),
            den |-> Pow10(Len(fp))]

\* x * k for an integer k.
Times(x, k) == IF x.nan THEN NaN ELSE [x EXCEPT !.num = x.num * k]

\* x < 0 (false for NaN and for -0).
LessThanZero(x) == ~x.nan /\ x.num < 0

\* Math.round: the nearest integer, a half going up.
MathRound(x) ==
  IF x.nan THEN NaN ELSE [x EXCEPT !.num = (2 * x.num + x.den) \div (2 * x.den), !.den = 1]

\* A slip that rounds where it should truncate.
MathFloorRounds(x) ==
  IF x.nan THEN NaN ELSE [x EXCEPT !.num = (2 * x.num + x.den) \div (2 * x.den), !.den = 1]

\* Math.floor.
MathFloor(x) == IF x.nan THEN NaN ELSE [x EXCEPT !.num = x.num \div x.den, !.den = 1]

RECURSIVE NatToString(_)
NatToString(n) ==
  IF n < 10 THEN <<Digits[n + 1]>> ELSE NatToString(n \div 10) \o <<Digits[(n % 10) + 1]>>

\* Number.prototype.toString of NaN or of an integer.
NumberToString(x) ==
  IF x.nan THEN <<"N", "a", "N">>
  ELSE IF x.num < 0 THEN <<"-">> \o NatToString(-x.num)
  ELSE NatToString(x.num)

\* new BN(text), base 10: an optional '-' and digits; any other character
\* makes the constructor throw (ok = FALSE).
BN(s) ==
  LET neg == s # <<>> /\ s[1] = "-"
      u   == IF neg THEN Tail(s) ELSE s
  IN  IF \E i \in DOMAIN u : ~IsDigit(u[i]) THEN [ok |-> FALSE, value |-> 0]
      ELSE [ok |-> TRUE, value |-> (IF neg THEN -1 ELSE 1) * DigitsValue(u)]

\* What `new BN` throws on text that is no number.
InvalidCharacterError ==
  [errorMessage |-> NULL, message |-> "Invalid character", logs |-> FALSE]

\* The smallest units in one unit of currency.
LAMPORTS_PER_SOL == 1000

\* text || "0"
OrZero(s) == IF s = <<>> THEN <<"0">> ELSE s

\* String.prototype.replace(a, b) with a text pattern: the first occurrence only.
ReplaceFirst(s, a, b) ==
  LET idx == {i \in DOMAIN s : s[i] = a}
  IN  IF idx = {} THEN s
      ELSE [s EXCEPT ![CHOOSE i \in idx : \A j \in idx : i <= j] = b]

\* ------------------------------------------------------------------ init_event, withdraw

StCreating == [kind |-> "progress", msg |-> "Creating event on devnet"]

StEventCreated == [kind |-> "ok", msg |-> "Event created"]

StSelectEventToWithdraw == [kind |-> "fail", msg |-> "Select an event to withdraw from"]

StSendingWithdraw == [kind |-> "progress", msg |-> "Sending withdraw"]

StWithdrawTx == [kind |-> "ok", msg |-> "withdraw tx"]

\* The error the price validation throws.
InvalidPriceError ==
  [errorMessage |-> NULL, message |-> "Invalid ticket price", logs |-> FALSE]

\* Price texts the create form passes: nothing, 1.5 with a dot and with a
\* comma, a negative price, text with no number in it, a number followed by
\* text, prices with half a smallest unit and less, and minus zero.
PriceInputs ==
  { <<>>,
    <<"1", ".", "5">>,
    <<"1", ",", "5">>,
    <<"-", "1">>,
    <<"a", "b", "c">>,
    <<"1", "a", "b", "c">>,
    <<"0", ".", "9", "9", "9", "5">>,
    <<"0", ".", "0", "0", "0", "4">>,
    <<"-", "0">> }

\* Amount texts the withdraw form passes: nothing, text with no number in
\* it, whole and fractional numbers of smallest units, a number followed by
\* text, and a negative amount.
AmountInputs ==
  { <<>>,
    <<"a", "b", "c">>,
    <<"0", ".", "9", "9", "9">>,
    <<"0", ".", "9", "9", "9", "5">>,
    <<"1", "a", "b", "c">>,
    <<"-", "1">> }

\* The eventPubkey values the withdraw form passes: none, an event's address
\* and text that is no address.
WithdrawEvents == {<<>>, toBase58("E1"), <<"z", "z">>}

\* At most MaxManage invocations of the two handlers.
ManageBudget == Len(creates) + Len(withdraws) < MaxManage

\* A handleCreateEvent invocation that has returned.  `subs`, `price` and
\* `outcome` are history: how many times initEvent was submitted, the price
\* it carried, the last status the invocation wrote.
CreateReturned(raw, st) ==
  [pc |-> "done", input |-> raw, prog |-> program, user |-> wallet, subs |-> 0,
   price |-> 0, outcome |-> st]

\* handleCreateEvent up to initEvent().rpc().
CreateStart(raw) ==
  /\ mounted
  /\ ManageBudget
  /\ LET normalized      == ReplaceFirst(OrZero(raw), ",", ".")
         priceSolNum     == parseFloat(normalized)
         priceLamports   == MathRound(Times(priceSolNum, LAMPORTS_PER_SOL))
         priceLamportsBn == BN(NumberToString(priceLamports))
     IN  IF program = NULL \/ wallet = NULL
         THEN /\ creates' = Append(creates, CreateReturned(raw, StIdle))
              /\ UNCHANGED txStatus
         ELSE IF priceSolNum.nan \/ LessThanZero(priceSolNum)
         THEN /\ creates' = Append(creates,
                   CreateReturned(raw, handleError(InvalidPriceError)))
              /\ txStatus' = handleError(InvalidPriceError)
         ELSE IF ~priceLamportsBn.ok
         THEN /\ creates' = Append(creates,
                   CreateReturned(raw, handleError(InvalidCharacterError)))
              /\ txStatus' = handleError(InvalidCharacterError)
         ELSE /\ creates' = Append(creates,
                   [CreateReturned(raw, StCreating) EXCEPT
                      !.pc = "rpc", !.subs = 1, !.price = priceLamportsBn.value])
              /\ txStatus' = StCreating
  /\ UNCHANGED <<href, mounted, program, wallet, events, mainTab, selectedEvent,
                 dlVars, checkedIn, joins, checkIns, withdraws, probe>>

\* initEvent().rpc() resolved.
CreateRpcResolved(i) ==
  /\ creates[i].pc = "rpc"
  /\ creates' = [creates EXCEPT ![i].pc = "refresh", ![i].outcome = StEventCreated]
  /\ txStatus' = StEventCreated
  /\ UNCHANGED <<href, mounted, program, wallet, events, mainTab, selectedEvent,
                 dlVars, checkedIn, joins, checkIns, withdraws, probe>>

\* A slip that submits initEvent once more when it threw.
CreateRpcRejectedRetries(i, e) ==
  /\ creates[i].pc = "rpc"
  /\ creates' = [creates EXCEPT
       ![i].pc = IF creates[i].subs < 2 THEN "rpc" ELSE "done",
       ![i].subs = IF creates[i].subs < 2 THEN creates[i].subs + 1 ELSE creates[i].subs,
       ![i].outcome = handleError(e)]
  /\ txStatus' = handleError(e)
  /\ UNCHANGED <<href, mounted, program, wallet, events, mainTab, selectedEvent,
                 dlVars, checkedIn, joins, checkIns, withdraws, probe>>

\* initEvent().rpc() threw.
CreateRpcRejected(i, e) ==
  /\ creates[i].pc = "rpc"
  /\ creates' = [creates EXCEPT ![i].pc = "done", ![i].outcome = handleError(e)]
  /\ txStatus' = handleError(e)
  /\ UNCHANGED <<href, mounted, program, wallet, events, mainTab, selectedEvent,
                 dlVars, checkedIn, joins, checkIns, withdraws, probe>>

\* await refreshEvents() returned: the hook delivers the collection anew.
CreateRefreshed(i, evs) ==
  /\ creates[i].pc = "refresh"
  /\ creates' = [creates EXCEPT ![i].pc = "done"]
  /\ events' = evs
  /\ selEffectPending' = TRUE
  /\ UNCHANGED <<href, mounted, program, wallet, txStatus, mainTab, selectedEvent,
                 deepLinkTicket, deepLinkEventPubkey, fetchEffectPending,
                 dlFetchInFlight, dlFailed, resolvedByLink, checkedIn, joins, checkIns,
                 withdraws, probe>>

\* A handleWithdraw invocation that has returned.  `subs`, `amount` and
\* `outcome` are history, as in CreateReturned.
WithdrawReturned(ev, raw, st) ==
  [pc |-> "done", event |-> ev, input |-> raw, prog |-> program, user |-> wallet,
   subs |-> 0, amount |-> 0, outcome |-> st]

\* handleWithdraw up to withdraw().rpc().
WithdrawStart(ev, raw) ==
  /\ mounted
  /\ ManageBudget
  /\ LET amountSolNum   == parseFloat(OrZero(raw))
         amountLamports == MathFloor(Times(amountSolNum, LAMPORTS_PER_SOL))
         amountBn       == BN(NumberToString(amountLamports))
     IN  IF program = NULL \/ wallet = NULL
         THEN /\ withdraws' = Append(withdraws, WithdrawReturned(ev, raw, StIdle))
              /\ UNCHANGED txStatus
         ELSE IF ev = <<>>
         THEN /\ withdraws' = Append(withdraws,
                   WithdrawReturned(ev, raw, StSelectEventToWithdraw))
              /\ txStatus' = StSelectEventToWithdraw
         ELSE IF PublicKeyOf(ev) = NULL
         THEN /\ withdraws' = Append(withdraws,
                   WithdrawReturned(ev, raw, handleError(InvalidKeyError)))
              /\ txStatus' = handleError(InvalidKeyError)
         ELSE IF ~amountBn.ok
         THEN /\ withdraws' = Append(withdraws,
                   WithdrawReturned(ev, raw, handleError(InvalidCharacterError)))
              /\ txStatus' = handleError(InvalidCharacterError)
         ELSE /\ withdraws' = Append(withdraws,
                   [WithdrawReturned(ev, raw, StSendingWithdraw) EXCEPT
                      !.pc = "rpc", !.subs = 1, !.amount = amountBn.value])
              /\ txStatus' = StSendingWithdraw
  /\ UNCHANGED <<href, mounted, program, wallet, events, mainTab, selectedEvent,
                 dlVars, checkedIn, joins, checkIns, creates, probe>>

\* withdraw().rpc() resolved.
WithdrawRpcResolved(i) ==
  /\ withdraws[i].pc = "rpc"
  /\ withdraws' = [withdraws EXCEPT ![i].pc = "done", ![i].outcome = StWithdrawTx]
  /\ txStatus' = StWithdrawTx
  /\ UNCHANGED <<href, mounted, program, wallet, events, mainTab, selectedEvent,
                 dlVars, checkedIn, joins, checkIns, creates, probe>>

\* withdraw().rpc() threw.
WithdrawRpcRejected(i, e) ==
  /\ withdraws[i].pc = "rpc"
  /\ withdraws' = [withdraws EXCEPT ![i].pc = "done", ![i].outcome = handleError(e)]
  /\ txStatus' = handleError(e)
  /\ UNCHANGED <<href, mounted, program, wallet, events, mainTab, selectedEvent,
                 dlVars, checkedIn, joins, checkIns, creates, probe>>

\* A page load without a deep link.
InitManage ==
  /\ Init
  /\ href = PlainHref
  /\ program \in {NULL, "P1"}
  /\ wallet \in {NULL, "W1"}
  /\ checkedIn = {}

NextManage ==
  \/ MountEffect
  \/ RunSelectionEffect
  \/ \E raw \in PriceInputs : CreateStart(raw)
  \/ \E i \in DOMAIN creates : CreateRpcResolved(i)
  \/ \E i \in DOMAIN creates, e \in ProgramErrors : CreateRpcRejected(i, e)
  \/ \E i \in DOMAIN creates, evs \in {EventKeys} : CreateRefreshed(i, evs)
  \/ \E ev \in WithdrawEvents, raw \in AmountInputs : WithdrawStart(ev, raw)
  \/ \E i \in DOMAIN withdraws : WithdrawRpcResolved(i)
  \/ \E i \in DOMAIN withdraws, e \in ProgramErrors : WithdrawRpcRejected(i, e)

\* The create-event and withdraw handlers, invoked up to MaxManage times.
SpecManage == InitManage /\ [][NextManage]_vars

\* ------------------------------------------------------------------ all handlers

\* At most MaxInvocations invocations of the five handlers together.
HandlersBudget ==
  Len(joins) + Len(checkIns) + Len(creates) + Len(withdraws) < MaxInvocations

\* A page load without a deep link, program and wallet of E1's organizer present.
InitHandlers ==
  /\ Init
  /\ href = PlainHref
  /\ program = "P1"
  /\ wallet = "W1"
  /\ checkedIn = {}

NextHandlers ==
  \/ MountEffect
  \/ \E evs \in {EventKeys} : EventsRefresh(evs)
  \/ RunSelectionEffect
  \/ HandlersBudget /\ \E raw \in {<<>>, <<"a", "b", "c">>} : CreateStart(raw)
  \/ \E i \in DOMAIN creates : CreateRpcResolved(i)
  \/ \E i \in DOMAIN creates, e \in ProgramErrors : CreateRpcRejected(i, e)
  \/ \E i \in DOMAIN creates, evs \in {EventKeys} : CreateRefreshed(i, evs)
  \/ HandlersBudget /\ \E ev \in {<<>>, toBase58("E1")}, raw \in {<<>>} : WithdrawStart(ev, raw)
  \/ \E i \in DOMAIN withdraws : WithdrawRpcResolved(i)
  \/ \E i \in DOMAIN withdraws, e \in ProgramErrors : WithdrawRpcRejected(i, e)
  \/ HandlersBudget /\ \E raw \in {<<>>, toBase58("E1")} : JoinStart(raw)
  \/ \E i \in DOMAIN joins : JoinRentResolved(i)
  \/ \E i \in DOMAIN joins, e \in ProgramErrors : JoinRentRejected(i, e)
  \/ \E i \in DOMAIN joins : JoinSetupBroadcast(i)
  \/ \E i \in DOMAIN joins : SetupTxConfirmed(i)
  \/ \E i \in DOMAIN joins : SetupTxDropped(i)
  \/ \E i \in DOMAIN joins, e \in ProgramErrors : JoinSendRejected(i, e)
  \/ \E i \in DOMAIN joins : JoinSendResolved(i)
  \/ \E i \in DOMAIN joins : JoinRpcResolved(i)
  \/ \E i \in DOMAIN joins, e \in ProgramErrors : JoinRpcRejected(i, e)
  \/ \E i \in DOMAIN joins : JoinRefreshed(i)
  \/ HandlersBudget /\ \E raw \in {<<>>, toBase58("T1")}, ev \in {"E1"} : CheckInStart(raw, ev)
  \/ \E i \in DOMAIN checkIns : CheckInFetchServed(i)
  \/ \E i \in DOMAIN checkIns : CheckInFetchRejected(i)
  \/ \E i \in DOMAIN checkIns : CheckInFetchResolved(i)
  \/ \E i \in DOMAIN checkIns : CheckInRpcResolved(i)
  \/ \E i \in DOMAIN checkIns, e \in ProgramErrors : CheckInRpcRejected(i, e)
  \/ \E i \in DOMAIN checkIns : CheckInRefreshed(i)
  \/ HandlersBudget /\ \E t \in {"T1"}, ev \in EventKeys : TicketCheckInStart(t, ev)
  \/ \E i \in DOMAIN checkIns : TicketCheckInRpcResolved(i)
  \/ \E i \in DOMAIN checkIns, e \in ProgramErrors : TicketCheckInRpcRejected(i, e)
  \/ \E i \in DOMAIN checkIns : TicketCheckInRefreshed(i)

\* The five handlers side by side, up to MaxInvocations invocations in all.
SpecHandlers == InitHandlers /\ [][NextHandlers]_vars

\* ------------------------------------------------------------------ link extractor

RECURSIVE Flatten(_)
\* The concatenation of a sequence of texts.
Flatten(ss) == IF ss = <<>> THEN <<>> ELSE Head(ss) \o Flatten(Tail(ss))

\* All sequences of n to m elements of S.
SeqsOf(S, n, m) == UNION {[1..k -> S] : k \in n..m}

\* How a scanned or pasted text begins: nothing, white space, a URL up to its
\* host (both schemes), a scheme alone, and a plain character.
ExtractPrefixes ==
  { <<>>, <<" ">>, HttpsScheme \o <<"x">>, HttpScheme \o <<"x">>, HttpsScheme, <<"x">> }

\* What it goes on with.
ExtractTokens ==
  { <<"/">>, <<"?">>, <<"&">>, <<"#">>, <<" ">>, <<"+">>, TicketEq, <<"T">> }

\* Scanned or pasted texts: a beginning and up to MaxParts more pieces.
ExtractInputs ==
  {p \o Flatten(ts) : p \in ExtractPrefixes, ts \in SeqsOf(ExtractTokens, 0, MaxParts)}

\* extractTicketAddressFromInput is called on the text.
ExtractCall ==
  /\ ~probe.called
  /\ probe' = [probe EXCEPT !.called = TRUE,
                            !.output = extractTicketAddressFromInput(probe.input)]
  /\ UNCHANGED <<uiVars, dlVars, checkedIn, joins, checkIns, creates, withdraws>>

\* Some text is about to be put through the extractor.
InitExtract ==
  /\ InitApp
  /\ href = PlainHref
  /\ program = NULL
  /\ wallet = NULL
  /\ checkedIn = {}
  /\ probe \in {[NoProbe EXCEPT !.input = s] : s \in ExtractInputs}

\* The link extractor on every text of ExtractInputs.
SpecExtract == InitExtract /\ [][ExtractCall]_vars

\* The pieces of ticket identifiers: letters, digits and signs that are none
\* of & # ? and no white space.
IdTokens == { <<"T">>, <<"a">>, <<"1">>, <<"+">>, <<"=">>, <<"/">>, <<".">> }

\* Ticket identifiers of 1 to MaxIdLen pieces.
Identifiers == {Flatten(ts) : ts \in SeqsOf(IdTokens, 1, MaxIdLen)}

\* The check-in URL the QR code carries for a ticket.
CheckInUrl(id) ==
  HttpsScheme \o <<"h", "o", "s", "t", "/", "p", "a", "t", "h", "?">> \o TicketEq \o id

\* Free text with the ticket parameter in it.
CheckInText(id) ==
  <<"p", "r", "e", "f", "i", "x", " ">> \o TicketEq \o id
    \o <<" ", "s", "u", "f", "f", "i", "x">>

\* The extractor is called on an identifier as such, in its URL and in text.
RoundTripCall ==
  /\ ~probe.called
  /\ probe' = [probe EXCEPT
       !.called = TRUE,
       !.output = extractTicketAddressFromInput(probe.input),
       !.viaUrl = extractTicketAddressFromInput(CheckInUrl(probe.input)),
       !.viaText = extractTicketAddressFromInput(CheckInText(probe.input))]
  /\ UNCHANGED <<uiVars, dlVars, checkedIn, joins, checkIns, creates, withdraws>>

\* Some identifier is about to be put through the extractor.
InitRoundTrip ==
  /\ InitApp
  /\ href = PlainHref
  /\ program = NULL
  /\ wallet = NULL
  /\ checkedIn = {}
  /\ probe \in {[NoProbe EXCEPT !.input = s] : s \in Identifiers}

\* The link extractor on every identifier, in its three forms.
SpecRoundTrip == InitRoundTrip /\ [][RoundTripCall]_vars

\* ------------------------------------------------------------------ claims C11-C15

\* C11 as stated: in both check-in handlers an invocation by a wallet that is
\* not the event's organizer ends in the organizer-only status and submits no
\* checkIn.
C11_OrganizerOnlyStatusBothPaths ==
  \A i \in DOMAIN checkIns :
    LET c == checkIns[i]
    IN  c.prog # NULL /\ c.caller \notin {NULL, Organizer(c.event)} =>
          c.outcome = StOrganizerOnly /\ c.subs = 0

\* C11 amended: such an invocation returns without a ticket fetch and without
\* a checkIn in both handlers; it ends in the organizer-only status, except
\* that the check-in by address ends in 'Could not find ticket address' when
\* nothing was extracted from the input, which it tests first.
C11_NonOrganizerNeverSubmits ==
  \A i \in DOMAIN checkIns :
    LET c == checkIns[i]
    IN  c.prog # NULL /\ c.caller \notin {NULL, Organizer(c.event)} =>
          /\ c.pc = "done"
          /\ ~c.fetched
          /\ ~c.submitted
          /\ c.subs = 0
          /\ c.outcome = IF c.noId THEN StNoTicketAddress ELSE StOrganizerOnly
          /\ c.outcome.kind = "fail"

\* A wallet that is not the organizer was refused in each of the two handlers.
C11_Witness ==
  /\ \E i \in DOMAIN checkIns :
       /\ checkIns[i].path = "ticket"
       /\ checkIns[i].caller # Organizer(checkIns[i].event)
       /\ checkIns[i].outcome = StOrganizerOnly
  /\ \E j \in DOMAIN checkIns :
       /\ checkIns[j].path = "address"
       /\ checkIns[j].caller # Organizer(checkIns[j].event)
       /\ ~checkIns[j].noId
       /\ checkIns[j].outcome = StOrganizerOnly
  /\ txStatus = StOrganizerOnly

\* C12: no invocation calls wallet.sendTransaction, joinEvent, initEvent,
\* withdraw or checkIn more than once, and an invocation that has returned
\* (a failed one included) never acts again.
C12_SingleShot ==
  /\ [](/\ \A i \in DOMAIN joins : joins[i].sends <= 1 /\ joins[i].subs <= 1
        /\ \A i \in DOMAIN creates : creates[i].subs <= 1
        /\ \A i \in DOMAIN withdraws : withdraws[i].subs <= 1
        /\ \A i \in DOMAIN checkIns : checkIns[i].subs <= 1)
  /\ [][/\ \A i \in DOMAIN joins :
            joins[i].pc = "done" =>
              joins'[i] = [joins[i] EXCEPT !.setup = joins'[i].setup]
        /\ \A i \in DOMAIN creates : creates[i].pc = "done" => creates'[i] = creates[i]
        /\ \A i \in DOMAIN withdraws :
            withdraws[i].pc = "done" => withdraws'[i] = withdraws[i]
        /\ \A i \in DOMAIN checkIns :
            checkIns[i].pc = "done" => checkIns'[i] = checkIns[i]]_vars

\* A joinEvent and an initEvent were each submitted once and failed.
C12_Witness ==
  /\ \E i \in DOMAIN joins :
       /\ joins[i].pc = "done"
       /\ joins[i].outcome = "fail"
       /\ joins[i].sends = 1
       /\ joins[i].subs = 1
  /\ \E i \in DOMAIN creates :
       /\ creates[i].pc = "done"
       /\ creates[i].outcome.kind = "fail"
       /\ creates[i].subs = 1

\* C13: a join invocation that ended in a failure after it had submitted
\* joinEvent leaves nothing behind: the mint and the associated account of its
\* setup transaction do not exist on chain.
C13_FailedJoinLeavesNoEffect ==
  \A i \in DOMAIN joins :
    joins[i].pc = "done" /\ joins[i].outcome = "fail" /\ joins[i].subs = 1 =>
      joins[i].setup # "confirmed"

\* C14: an invocation with a validation error has made no network call and
\* ended in a failure status: a create-event whose price text is not a number
\* as a whole or is negative, a withdraw without an event, a check-in by
\* address from whose input nothing is extracted.
C14_ValidationBeforeNetwork ==
  /\ \A i \in DOMAIN creates :
       LET c == creates[i]
           t == Trim(ReplaceFirst(c.input, ",", "."))
           u == IF t # <<>> /\ t[1] \in {"-", "+"} THEN Tail(t) ELSE t
           numeric == /\ \E k \in DOMAIN u : IsDigit(u[k])
                      /\ \A k \in DOMAIN u : IsDigit(u[k]) \/ u[k] = "."
                      /\ Cardinality({k \in DOMAIN u : u[k] = "."}) <= 1
           negative == LessThanZero(parseFloat(t))
       IN  c.prog # NULL /\ c.user # NULL /\ c.input # <<>> /\ (~numeric \/ negative) =>
             c.pc = "done" /\ c.subs = 0 /\ c.outcome.kind = "fail"
  /\ \A i \in DOMAIN withdraws :
       LET w == withdraws[i]
       IN  w.prog # NULL /\ w.user # NULL /\ w.event = <<>> =>
             w.pc = "done" /\ w.subs = 0 /\ w.outcome = StSelectEventToWithdraw
  /\ \A i \in DOMAIN checkIns :
       LET k == checkIns[i]
       IN  k.prog # NULL /\ k.caller # NULL /\ k.path = "address" /\ k.noId =>
             k.pc = "done" /\ ~k.fetched /\ k.subs = 0 /\ k.outcome = StNoTicketAddress

\* C15: a join-event whose event address is well formed and not among the
\* loaded events has returned with the failure status 'Selected event not
\* found in local list' as its last status; it generated no mint key, asked
\* the network nothing and sent no transaction.
C15_AbsentEventFailsEarly ==
  /\ [](\A i \in DOMAIN joins :
         joins[i].absent =>
           /\ joins[i].pc = "done"
           /\ joins[i].outcome = StNotInLocalList.kind
           /\ joins[i].outcome = "fail"
           /\ joins[i].mint = 0
           /\ joins[i].sends = 0
           /\ joins[i].subs = 0
           /\ joins[i].setup = "none")
  /\ [][\A i \in DOMAIN joins' :
          i \notin DOMAIN joins /\ joins'[i].absent => txStatus' = StNotInLocalList]_vars

\* With E1 loaded, a join of E2 was refused.
C15_Witness ==
  /\ events = {"E1"}
  /\ \E i \in DOMAIN joins : joins[i].absent /\ joins[i].pc = "done"
  /\ txStatus = StNotInLocalList

\* ------------------------------------------------------------------ claims C16-C17

\* C16: the rules apply in the order empty, URL, 'ticket=', raw, and the
\* first that applies decides: an empty text gives null; a text that begins
\* with http:// or https:// gives the trimmed ticket query parameter, or null
\* when the URL has none or does not parse, whatever 'ticket=' its path or
\* host holds (null for certain when it has no '?'); any other text with
\* 'ticket=' gives what follows up to the first & # ? or white space, or
\* null when that is empty; any other text gives itself, trimmed.  The
\* result is always null or a text.
C16_RuleOrder ==
  probe.called =>
    LET t      == Trim(probe.input)
        out    == probe.output
        isUrl  == StartsWith(t, HttpScheme) \/ StartsWith(t, HttpsScheme)
        param  == SearchParamsGetTicket(UrlParse(t).query)
        follow == SubSeq(t, IndexOf(t, TicketEq) + Len(TicketEq), Len(t))
        cand   == Trim(TakeUntil(follow, {"&", "#", "?"} \cup WS))
    IN  /\ out.null \/ out.s \in Seq({t[i] : i \in 1..Len(t)} \cup {" "})
        /\ t = <<>> => out = NullStr
        /\ t # <<>> /\ isUrl =>
             /\ out = IF UrlParse(t).ok /\ Truthy(param) THEN Some(Trim(param.s))
                      ELSE NullStr
             /\ (\A i \in 1..Len(t) : t[i] # "?") => out = NullStr
        /\ t # <<>> /\ ~isUrl /\ IndexOf(t, TicketEq) # 0 =>
             out = IF cand = <<>> THEN NullStr ELSE Some(cand)
        /\ t # <<>> /\ ~isUrl /\ IndexOf(t, TicketEq) = 0 => out = Some(t)

\* A URL with 'ticket=T' in its path and no query was given null.
C16_Witness ==
  /\ probe.called
  /\ probe.input = HttpsScheme \o <<"x", "/">> \o TicketEq \o <<"T">>
  /\ probe.output = NullStr

\* C17 as stated: every identifier without URL scheme, without 'ticket=' and
\* with none of & # ? and no white space comes back unchanged from its
\* check-in URL, from free text around 'ticket=' and from itself.
C17_RoundTripEveryIdentifier ==
  probe.called /\ probe.input \in Identifiers =>
    /\ probe.viaUrl = Some(probe.input)
    /\ probe.viaText = Some(probe.input)
    /\ probe.output = Some(probe.input)

\* C17 amended: such an identifier comes back unchanged from free text and
\* from itself, and from its check-in URL when it holds no '+'; with a '+' in
\* it the URL gives it back with every '+' turned into a space, and trimmed.
C17_RoundTripButPlus ==
  probe.called /\ probe.input \in Identifiers =>
    /\ probe.viaText = Some(probe.input)
    /\ probe.output = Some(probe.input)
    /\ (\A i \in 1..Len(probe.input) : probe.input[i] # "+")
         => probe.viaUrl = Some(probe.input)
    /\ (\E i \in 1..Len(probe.input) : probe.input[i] = "+")
         => /\ probe.viaUrl # Some(probe.input)
            /\ probe.viaUrl = Some(Trim(FormDecode(probe.input)))

\* The identifier T1a came back from all three forms.
C17_Witness ==
  /\ probe.called
  /\ probe.input = <<"T", "1", "a">>
  /\ probe.viaUrl = Some(probe.input)
  /\ probe.viaText = Some(probe.input)
  /\ probe.output = Some(probe.input)

\* ------------------------------------------------------------------ claims C18-C20

\* C18: a create-event whose price text is not a number as a whole, or is
\* negative, ends in 'Invalid ticket price' with no initEvent; and "1,5" is
\* accepted with the price of "1.5", 1500 smallest units.
C18_PriceValidation ==
  /\ \A i \in DOMAIN creates :
       LET c == creates[i]
           t == Trim(ReplaceFirst(c.input, ",", "."))
           u == IF t # <<>> /\ t[1] \in {"-", "+"} THEN Tail(t) ELSE t
           numeric == /\ \E k \in DOMAIN u : IsDigit(u[k])
                      /\ \A k \in DOMAIN u : IsDigit(u[k]) \/ u[k] = "."
                      /\ Cardinality({k \in DOMAIN u : u[k] = "."}) <= 1
           negative == /\ t # <<>> /\ t[1] = "-"
                       /\ \E k \in DOMAIN u : IsDigit(u[k]) /\ u[k] # "0"
       IN  c.prog # NULL /\ c.user # NULL /\ c.input # <<>> /\ (~numeric \/ negative) =>
             /\ c.pc = "done"
             /\ c.subs = 0
             /\ c.outcome = handleError(InvalidPriceError)
  /\ \A i \in DOMAIN creates :
       /\ creates[i].prog # NULL
       /\ creates[i].user # NULL
       /\ creates[i].input \in {<<"1", ",", "5">>, <<"1", ".", "5">>}
       => creates[i].subs = 1 /\ creates[i].price = 1500

\* C19: a withdraw for a well-formed event address whose amount text has no
\* number in it is submitted with amount 0.
C19_NonNumericAmountIsZero ==
  \A i \in DOMAIN withdraws :
    LET w == withdraws[i]
    IN  /\ w.prog # NULL
        /\ w.user # NULL
        /\ PublicKeyOf(w.event) # NULL
        /\ w.input # <<>>
        /\ \A k \in DOMAIN w.input : ~IsDigit(w.input[k])
        => w.subs = 1 /\ w.amount = 0 /\ w.outcome.kind # "fail"

\* C20: withdraw carries the floor of the amount times the unit scale and
\* create-event the nearest integer, a half going up: when the fractional
\* part of the scaled value is a half or more, withdraw carries the integer
\* below and create-event the one above.  At the unit scale 1000 a withdraw
\* of "0.999" carries 999.
C20_WithdrawFloorsCreateRounds ==
  /\ \A i \in DOMAIN withdraws :
       LET w == withdraws[i]
           x == parseFloat(OrZero(w.input))
           n == x.num * LAMPORTS_PER_SOL
       IN  w.subs = 1 =>
             /\ w.amount * x.den <= n
             /\ n < (w.amount + 1) * x.den
             /\ (w.input = <<"0", ".", "9", "9", "9">> => w.amount = 999)
  /\ \A i \in DOMAIN creates :
       LET c == creates[i]
           x == parseFloat(ReplaceFirst(OrZero(c.input), ",", "."))
           n == x.num * LAMPORTS_PER_SOL
       IN  c.subs = 1 =>
             \E f \in {c.price - 1, c.price} :
               /\ f * x.den <= n
               /\ n < (f + 1) * x.den
               /\ c.price = IF 2 * (n - f * x.den) >= x.den THEN f + 1 ELSE f

\* The same text "0.9995" went into a withdraw as 999 and into a create-event
\* as 1000.
C20_Witness ==
  /\ \E i \in DOMAIN withdraws :
       /\ withdraws[i].input = <<"0", ".", "9", "9", "9", "5">>
       /\ withdraws[i].subs = 1
       /\ withdraws[i].amount = 999
  /\ \E i \in DOMAIN creates :
       /\ creates[i].input = <<"0", ".", "9", "9", "9", "5">>
       /\ creates[i].subs = 1
       /\ creates[i].price = 1000
\* ------------------------------------------------------------------ claim C21

\* C21: under any interleaving of join-event invocations, the invocations that
\* generated a mint key generated different ones, and the joinEvent
\* instruction an invocation submits names the mint, the mint authority and
\* the buyer's associated account of the setup transaction that the same
\* invocation built, none of them those of another invocation's setup
\* transaction.
C21_OwnMintPerInvocation ==
  \A i \in DOMAIN joins :
    /\ joins[i].mint # 0 =>
         \A j \in DOMAIN joins \ {i} : joins[j].mint # joins[i].mint
    /\ joins[i].joinAccounts # NoAccounts =>
         /\ joins[i].setupTx # NoAccounts
         /\ joins[i].joinAccounts.mint = joins[i].mint
         /\ joins[i].joinAccounts.mint = joins[i].setupTx.mint
         /\ joins[i].joinAccounts.mintAuthority = joins[i].setupTx.mintAuthority
         /\ joins[i].joinAccounts.buyerAta = joins[i].setupTx.buyerAta
         /\ \A j \in DOMAIN joins \ {i} :
              joins[j].setupTx # NoAccounts =>
                /\ joins[i].joinAccounts.mint # joins[j].setupTx.mint
                /\ joins[i].joinAccounts.mintAuthority
                     # joins[j].setupTx.mintAuthority
                /\ joins[i].joinAccounts.buyerAta # joins[j].setupTx.buyerAta

\* Two invocations in flight at once, the first having submitted joinEvent
\* while the second, started meanwhile, waits on its own setup transaction,
\* and later both waiting on their joinEvent.
C21_Witness ==
  /\ Len(joins) = 2
  /\ joins[1].pc = "join" /\ joins[2].pc = "join"
  /\ joins[1].joinAccounts # NoAccounts /\ joins[2].joinAccounts # NoAccounts
  /\ joins[1].user = joins[2].user /\ joins[1].event = joins[2].event

====
